---- MODULE Spec2Model ----
(***************************************************************************)
(* Model of the Simple-Email server command engine (src/server/server.py). *)
(* Strings are sequences of tokens: the delimiter "|" is always a token of *)
(* its own, so str.split("|") is computed on the model's strings exactly   *)
(* as Python computes it on characters.                                    *)
(***************************************************************************)
EXTENDS Integers, Sequences, FiniteSets, TLC

\* ---------------------------------------------------------------- bounds
\* Cap on email_id_counter: SEND and FORWARD are not issued beyond it.
MaxId == 2

\* Cap on the commands of one client that wait unhandled after a timeout.
MaxPending == 1

\* Cap on the drafts kept in one user's drafts file.
MaxDrafts == 1

\* Cap on the messages other clients send while the client under study runs.
MaxPeerMail == 1

\* ------------------------------------------------------- string helpers
PIPE == "|"

RECURSIVE IndexOf(_, _, _)
\* str.find: position of the first token c in s at or after i, 0 if none
IndexOf(s, c, i) ==
    IF i > Len(s) THEN 0
    ELSE IF s[i] = c THEN i
    ELSE IndexOf(s, c, i + 1)

RECURSIVE Split(_, _, _)
\* str.split(sep, maxsplit); maxsplit = -1 is Python's default (no limit)
Split(s, sep, maxsplit) ==
    LET i == IndexOf(s, sep, 1) IN
    IF maxsplit = 0 \/ i = 0 THEN << s >>
    ELSE << SubSeq(s, 1, i - 1) >>
         \o Split(SubSeq(s, i + 1, Len(s)), sep, maxsplit - 1)

RECURSIVE Join(_, _)
\* sep.join(parts)
Join(parts, sep) ==
    IF Len(parts) = 0 THEN << >>
    ELSE IF Len(parts) = 1 THEN parts[1]
    ELSE parts[1] \o << sep >> \o Join(Tail(parts), sep)

DigitTokens == << "0", "1", "2", "3", "4", "5", "6", "7", "8", "9" >>

IsDigit(c) == \E d \in 1..10 : DigitTokens[d] = c

DigitValue(c) == (CHOOSE d \in 1..10 : DigitTokens[d] = c) - 1

RECURSIVE Str(_)
\* str(n) / f"{n}" for a non-negative integer
Str(n) ==
    IF n < 10 THEN << DigitTokens[n + 1] >>
    ELSE Str(n \div 10) \o << DigitTokens[(n % 10) + 1] >>

\* int(s) succeeds (on the inputs of this model: plain decimal digits)
IsInt(s) == Len(s) > 0 /\ \A i \in 1..Len(s) : IsDigit(s[i])

RECURSIVE PyInt(_)
\* int(s) for a string of decimal digits
PyInt(s) ==
    IF Len(s) = 0 THEN 0
    ELSE 10 * PyInt(SubSeq(s, 1, Len(s) - 1)) + DigitValue(s[Len(s)])

\* str(e) of the ValueError int(s) raises
ValueErrorText(s) ==
    << "invalid literal for int() with base 10: '" >> \o s \o << "'" >>

\* ---------------------------------------------------------------- state
VARIABLES
    users,              \* self.users: username -> password
    emails,             \* self.emails: list of email records
    email_id_counter,   \* self.email_id_counter
    disk,               \* server_db.json: [exists, users, emails, email_id_counter]
    lastCmd,            \* the command string process_command was last given
    response,           \* what process_command returned for lastCmd
    assigned,           \* history: the set of ids the server has ever given to a message
    deleted,            \* history: the ids whose DELETE has returned OK
    before,             \* history: the store as it was when lastCmd arrived
    clients,            \* self.clients: the counter of connections
    running,            \* the loop of run() is executing
    inputs,             \* the client sockets in the list inputs of run()
    clientmap,          \* the sockets that are keys of self.clientmap
    chan,               \* per socket: its state, the peer's state, the unread payloads
    event,              \* history: what the loop did last, and on which socket
    erred,              \* history: the sockets a socket.error was caught on
    outputs,            \* the sockets in the list self.outputs
    server,             \* self.server, the listening socket: "listening" or "closed"
    logins,             \* history: the pairs of a socket and a username whose LOGIN
                        \* on that socket was answered OK
    stream,             \* one direction of one connection, byte by byte: what send()
                        \* wrote, what has arrived, and the receive() call reading it
    client_username,    \* client: self.username, << >> for None
    logged_in,          \* client: self.logged_in
    connected,          \* client: self.connected
    cache,              \* client: self.cache, with the user each list was obtained for
    files,              \* client: client_data/<username>_data.json, per username
    drafts,             \* client: client_data/<username>_drafts.json, per username
    shown_email,        \* client: the dict email that read_email built last
    pc,                 \* client: where the user interface stands
    ret,                \* client: what send_command returned last
    inflight,           \* commands the client has written and the server has not handled
    arrived,            \* responses that wait unread on the client's socket
    clock,              \* client: index of the second datetime.now() falls in
    subject_sent,       \* history: the subject the client put in its last SEND
    faults,             \* the network and the server can delay or break an exchange
    in_row              \* history: the client's last operation was a sync_inbox call
                        \* that took the OK or the EMPTY branch, and no command has
                        \* changed the store since

storeVars == << users, emails, email_id_counter, disk, lastCmd, response,
                assigned, deleted, before >>

muxVars == << clients, running, inputs, clientmap, chan, event, erred, outputs, server,
             stream, logins >>

clientVars == << client_username, logged_in, connected, cache, files, drafts,
                shown_email, pc, ret,
                inflight, arrived, clock, subject_sent, faults, in_row >>

vars == << storeVars, muxVars, clientVars >>

EmptyDict == [x \in {} |-> << >>]

DictSet(d, k, v) == [x \in (DOMAIN d) \cup {k} |-> IF x = k THEN v ELSE d[x]]

\* json.dump of the three fields into server_db.json; the write is taken to
\* succeed (a failing write is caught and only printed, lines 81-82)
save_server_data(us, em, ctr) ==
    [exists |-> TRUE, users |-> us, emails |-> em, email_id_counter |-> ctr]

NoFile ==
    [exists |-> FALSE, users |-> EmptyDict, emails |-> << >>, email_id_counter |-> 0]

\* What a handler leaves behind: its return value and the fields of self
Outcome(resp, us, em, ctr, dk) ==
    [resp |-> resp, users |-> us, emails |-> em, email_id_counter |-> ctr, disk |-> dk]

\* A handler that only returns a string
Reply(resp) == Outcome(resp, users, emails, email_id_counter, disk)

\* next((e for e in self.emails if e['id'] == msg_id), None): index, 0 for None
FindEmail(msg_id) ==
    IF \E i \in 1..Len(emails) : emails[i].id = msg_id
    THEN CHOOSE i \in 1..Len(emails) :
            /\ emails[i].id = msg_id
            /\ \A j \in 1..(i - 1) : emails[j].id # msg_id
    ELSE 0

\* the last element removed in place of the one found
RemoveAt_last(s, i) == SubSeq(s, 1, Len(s) - 1)

\* list.remove(email) of the element at index i
RemoveAt(s, i) == SubSeq(s, 1, i - 1) \o SubSeq(s, i + 1, Len(s))

\* the access check with == written for !=
AccessDenied_eq(email, username) == email.to = username /\ email.from = username

\* email['to'] != username and email['from'] != username
AccessDenied(email, username) == email.to # username /\ email.from # username

\* ------------------------------------------------------------- handlers
ERR(text) == << "ERROR", PIPE >> \o text

\* REGISTER without the "if username in self.users" test
handle_register_overwrite(data) ==
    LET parts == Split(data, PIPE, 2) IN
    IF Len(parts) = 3 THEN
        LET us == DictSet(users, parts[2], parts[3]) IN
        Outcome(<< "OK", PIPE, "User " >> \o parts[2] \o << " registered successfully" >>,
                us, emails, email_id_counter,
                save_server_data(us, emails, email_id_counter))
    ELSE Reply(ERR(<< "Invalid REGISTER format" >>))

handle_register(data) ==
    LET parts == Split(data, PIPE, 2) IN
    IF Len(parts) = 3 THEN
        LET username == parts[2]
            password == parts[3]
        IN  IF username \in DOMAIN users
            THEN Reply(ERR(<< "Username already exists" >>))
            ELSE LET us == DictSet(users, username, password) IN
                 Outcome(<< "OK", PIPE, "User " >> \o username
                            \o << " registered successfully" >>,
                         us, emails, email_id_counter,
                         save_server_data(us, emails, email_id_counter))
    ELSE Reply(ERR(<< "Invalid REGISTER format" >>))

handle_login(data) ==
    LET parts == Split(data, PIPE, -1) IN
    IF Len(parts) = 3 THEN
        LET username == parts[2]
            password == parts[3]
        IN  IF username \notin DOMAIN users
            THEN Reply(ERR(<< "Username not found" >>))
            ELSE IF users[username] # password
            THEN Reply(ERR(<< "Invalid password" >>))
            ELSE Reply(<< "OK", PIPE, "Welcome " >> \o username \o << "!" >>)
    ELSE Reply(ERR(<< "Invalid LOGIN format" >>))

\* handle_send splitting as the other handlers do, without the bound
SendParts_unbounded(data) == Split(data, PIPE, -1)

\* data.split("|", 4) of handle_send
SendParts(data) == Split(data, PIPE, 4)

\* the recipient validation left out
RecipientKnown_unchecked(recipient) == TRUE

\* "recipient not in self.users" of handle_send and handle_forward, negated
RecipientKnown(recipient) == recipient \in DOMAIN users

\* the new message created already marked as read
NewEmail_alreadyRead(ctr, sender, recipient, subject, body, now) ==
    [id |-> ctr, from |-> sender, to |-> recipient, subject |-> subject,
     body |-> body, timestamp |-> now, read |-> TRUE]

\* the dictionary `email` that handle_send builds
NewEmail(ctr, sender, recipient, subject, body, now) ==
    [id |-> ctr, from |-> sender, to |-> recipient, subject |-> subject,
     body |-> body, timestamp |-> now, read |-> FALSE]

handle_send(data, now) ==
    LET parts == SendParts(data) IN
    IF Len(parts) = 5 THEN
        LET sender    == parts[2]
            recipient == parts[3]
            subject   == parts[4]
            body      == parts[5]
        IN  IF ~RecipientKnown(recipient)
            THEN Reply(ERR(<< "Recipient not found" >>))
            ELSE LET ctr   == email_id_counter + 1
                     email == NewEmail(ctr, sender, recipient, subject, body, now)
                     em    == Append(emails, email)
                 IN  Outcome(<< "OK", PIPE, "Email sent to " >> \o recipient,
                             users, em, ctr, save_server_data(users, em, ctr))
    ELSE Reply(ERR(<< "Invalid SEND format (need: SEND", PIPE, "from", PIPE, "to",
                      PIPE, "subject", PIPE, "body)" >>))

\* [e for e in self.emails if e['to'] == username]
InboxOf(username) == SelectSeq(emails, LAMBDA e : e.to = username)

\* [e for e in self.emails if e['from'] == username]
SentOf(username) == SelectSeq(emails, LAMBDA e : e.from = username)

\* one f"{id}~{from}~{subject}~{timestamp}~{status};" of handle_inbox
InboxEntry(e) ==
    Str(e.id) \o << "~" >> \o e.from \o << "~" >> \o e.subject \o << "~" >>
        \o e.timestamp \o << "~" >> \o << IF e.read THEN "READ" ELSE "UNREAD" >>
        \o << ";" >>

\* one f"{id}~{to}~{subject}~{timestamp};" of handle_sent
SentEntry(e) ==
    Str(e.id) \o << "~" >> \o e.to \o << "~" >> \o e.subject \o << "~" >>
        \o e.timestamp \o << ";" >>

RECURSIVE ConcatInbox(_)
ConcatInbox(s) == IF Len(s) = 0 THEN << >> ELSE InboxEntry(Head(s)) \o ConcatInbox(Tail(s))

RECURSIVE ConcatSent(_)
ConcatSent(s) == IF Len(s) = 0 THEN << >> ELSE SentEntry(Head(s)) \o ConcatSent(Tail(s))

RECURSIVE RStrip(_, _)
\* str.rstrip(c)
RStrip(s, c) ==
    IF Len(s) > 0 /\ s[Len(s)] = c THEN RStrip(SubSeq(s, 1, Len(s) - 1), c) ELSE s

handle_inbox(data) ==
    LET parts == Split(data, PIPE, -1) IN
    IF Len(parts) = 2 THEN
        LET inbox == InboxOf(parts[2]) IN
        IF Len(inbox) = 0
        THEN Reply(<< "EMPTY", PIPE, "No emails in inbox" >>)
        ELSE Reply(RStrip(<< "OK", PIPE >> \o Str(Len(inbox)) \o << PIPE >>
                            \o ConcatInbox(inbox), ";"))
    ELSE Reply(ERR(<< "Invalid INBOX format" >>))

handle_sent(data) ==
    LET parts == Split(data, PIPE, -1) IN
    IF Len(parts) = 2 THEN
        LET sent == SentOf(parts[2]) IN
        IF Len(sent) = 0
        THEN Reply(<< "EMPTY", PIPE, "No sent emails" >>)
        ELSE Reply(RStrip(<< "OK", PIPE >> \o Str(Len(sent)) \o << PIPE >>
                            \o ConcatSent(sent), ";"))
    ELSE Reply(ERR(<< "Invalid SENT format" >>))

\* the flag set for the sender's READ as well
MarksRead_anyParty(email, username) == email.to = username \/ email.from = username

\* "if email['to'] == username" of handle_read: this reader's READ sets the flag
MarksRead(email, username) == email.to = username

handle_read(data) ==
    LET parts == Split(data, PIPE, -1) IN
    IF Len(parts) = 3 THEN
        LET username == parts[2] IN
        IF ~IsInt(parts[3]) THEN Reply(ERR(ValueErrorText(parts[3])))
        ELSE
        LET msg_id == PyInt(parts[3])
            i      == FindEmail(msg_id)
        IN  IF i = 0 THEN Reply(ERR(<< "Email not found" >>))
            ELSE IF AccessDenied(emails[i], username)
            THEN Reply(ERR(<< "Access denied" >>))
            ELSE LET email == emails[i]
                     resp  == << "OK", PIPE >> \o Str(email.id) \o << PIPE >>
                                \o email.from \o << PIPE >> \o email.to \o << PIPE >>
                                \o email.subject \o << PIPE >> \o email.body
                                \o << PIPE >> \o email.timestamp
                 IN  IF MarksRead(email, username)
                     THEN LET em == [emails EXCEPT ![i].read = TRUE] IN
                          Outcome(resp, users, em, email_id_counter,
                                  save_server_data(users, em, email_id_counter))
                     ELSE Reply(resp)
    ELSE Reply(ERR(<< "Invalid READ format" >>))

handle_delete(data) ==
    LET parts == Split(data, PIPE, -1) IN
    IF Len(parts) = 3 THEN
        LET username == parts[2] IN
        IF ~IsInt(parts[3]) THEN Reply(ERR(ValueErrorText(parts[3])))
        ELSE
        LET msg_id == PyInt(parts[3])
            i      == FindEmail(msg_id)
        IN  IF i = 0 THEN Reply(ERR(<< "Email not found" >>))
            ELSE IF AccessDenied(emails[i], username)
            THEN Reply(ERR(<< "Access denied" >>))
            ELSE LET em == RemoveAt(emails, i) IN
                 Outcome(<< "OK", PIPE, "Email #" >> \o Str(msg_id) \o << " deleted" >>,
                         users, em, email_id_counter,
                         save_server_data(users, em, email_id_counter))
    ELSE Reply(ERR(<< "Invalid DELETE format" >>))

\* the forwarded copy keeping the original sender
ForwardedEmail_keepSender(original, ctr, username, new_recipient, now) ==
    [id |-> ctr, from |-> original.from, to |-> new_recipient,
     subject |-> << "FWD: " >> \o original.subject,
     body |-> << "[Forwarded from " >> \o original.from \o << "]\n\n" >> \o original.body,
     timestamp |-> now, read |-> FALSE]

\* the dictionary `forwarded` that handle_forward builds
ForwardedEmail(original, ctr, username, new_recipient, now) ==
    [id |-> ctr, from |-> username, to |-> new_recipient,
     subject |-> << "FWD: " >> \o original.subject,
     body |-> << "[Forwarded from " >> \o original.from \o << "]\n\n" >> \o original.body,
     timestamp |-> now, read |-> FALSE]

handle_forward(data, now) ==
    LET parts == Split(data, PIPE, -1) IN
    IF Len(parts) = 4 THEN
        LET username      == parts[2]
            new_recipient == parts[4]
        IN
        IF ~IsInt(parts[3]) THEN Reply(ERR(ValueErrorText(parts[3])))
        ELSE
        LET msg_id == PyInt(parts[3])
            i      == FindEmail(msg_id)
        IN  IF i = 0 THEN Reply(ERR(<< "Email not found" >>))
            ELSE IF AccessDenied(emails[i], username)
            THEN Reply(ERR(<< "Access denied" >>))
            ELSE IF ~RecipientKnown(new_recipient)
            THEN Reply(ERR(<< "Recipient not found" >>))
            ELSE LET original  == emails[i]
                     ctr       == email_id_counter + 1
                     forwarded == ForwardedEmail(original, ctr, username, new_recipient, now)
                 IN  \* no save_server_data() call on this path
                     Outcome(<< "OK", PIPE, "Email forwarded to " >> \o new_recipient,
                             users, Append(emails, forwarded), ctr, disk)
    ELSE Reply(ERR(<< "Invalid FORWARD format" >>))

handle_export(data) ==
    LET parts == Split(data, PIPE, -1) IN
    IF Len(parts) = 3 THEN
        LET username == parts[2] IN
        IF ~IsInt(parts[3]) THEN Reply(ERR(ValueErrorText(parts[3])))
        ELSE
        LET msg_id == PyInt(parts[3])
            i      == FindEmail(msg_id)
        IN  IF i = 0 THEN Reply(ERR(<< "Email not found" >>))
            ELSE IF AccessDenied(emails[i], username)
            THEN Reply(ERR(<< "Access denied" >>))
            ELSE LET email == emails[i] IN
                 Reply(<< "OK", PIPE, "Email exported to ", "email_" >> \o Str(msg_id)
                         \o << "_" >> \o username \o << ".txt", PIPE >>
                         \o << "From: " >> \o email.from \o << "\n", "To: " >> \o email.to
                         \o << "\n", "Subject: " >> \o email.subject
                         \o << "\n", "Date: " >> \o email.timestamp
                         \o << "\n", "\n" >> \o email.body \o << "\n" >>)
    ELSE Reply(ERR(<< "Invalid EXPORT format" >>))

handle_status(data) ==
    LET parts == Split(data, PIPE, -1) IN
    IF Len(parts) = 2 THEN
        LET username == parts[2]
            unread   == SelectSeq(emails, LAMBDA e : e.to = username /\ ~e.read)
        IN  Reply(<< "OK", PIPE, "Inbox: " >> \o Str(Len(InboxOf(username)))
                    \o << " (" >> \o Str(Len(unread)) \o << " unread)", PIPE, "Sent: " >>
                    \o Str(Len(SentOf(username))))
    ELSE Reply(<< "OK", PIPE, "Users: " >> \o Str(Cardinality(DOMAIN users))
                 \o << PIPE, "Emails: " >> \o Str(Len(emails))
                 \o << PIPE, "Active Clients: " >> \o Str(clients))

process_command(data, now) ==
    IF Len(data) = 0 THEN Reply(ERR(<< "Empty command" >>))
    ELSE LET command == Split(data, PIPE, -1)[1] IN
         IF      command = << "REGISTER" >> THEN handle_register(data)
         ELSE IF command = << "LOGIN" >>    THEN handle_login(data)
         ELSE IF command = << "SEND" >>     THEN handle_send(data, now)
         ELSE IF command = << "INBOX" >>    THEN handle_inbox(data)
         ELSE IF command = << "SENT" >>     THEN handle_sent(data)
         ELSE IF command = << "READ" >>     THEN handle_read(data)
         ELSE IF command = << "DELETE" >>   THEN handle_delete(data)
         ELSE IF command = << "FORWARD" >>  THEN handle_forward(data, now)
         ELSE IF command = << "EXPORT" >>   THEN handle_export(data)
         ELSE IF command = << "STATUS" >>   THEN handle_status(data)
         ELSE Reply(ERR(<< "Unknown command '" >> \o command \o << "'" >>))

\* ---------------------------------------------------------------- inputs
Cmd(parts) == Join(parts, PIPE)

A == << "a" >>
B == << "b" >>
C == << "c" >>

\* Usernames the commands name; "c" is never registered by RegisterCmds
Names == { A, B, C }

\* REGISTER|a|p|q registers a with the password "p|q"
RegisterCmds ==
    { Cmd(<< << "REGISTER" >>, A, << "p", PIPE, "q" >> >>),
      Cmd(<< << "REGISTER" >>, B, << "p" >> >>),
      Cmd(<< << "REGISTER" >>, B, << "q" >> >>),
      Cmd(<< << "REGISTER" >>, B >>) }

LoginCmds ==
    { Cmd(<< << "LOGIN" >>, A, << "p", PIPE, "q" >> >>),
      Cmd(<< << "LOGIN" >>, A, << "q" >> >>),
      Cmd(<< << "LOGIN" >>, B, << "p" >> >>),
      Cmd(<< << "LOGIN" >>, B, << "q" >> >>),
      Cmd(<< << "LOGIN" >>, C, << "p" >> >>) }

Subjects == { << "s" >> }

Bodies == { << "x", PIPE, "y" >> }

SendCmds ==
    { Cmd(<< << "SEND" >>, A, t, sj, b >>) : t \in Names, sj \in Subjects, b \in Bodies }
    \cup { Cmd(<< << "SEND" >>, A, B, << "s" >> >>) }

\* the value of datetime.now().strftime("%Y-%m-%d %H:%M:%S") when a handler runs
Timestamps == { << "2025-01-01 10:00:00" >> }

\* message ids the commands name, and a non-numeric one
IdArgs == { Str(i) : i \in 1..MaxId }
NotANumber == << "x" >>

InboxCmds == { Cmd(<< << "INBOX" >>, u >>) : u \in { A, B } }
SentCmds == { Cmd(<< << "SENT" >>, u >>) : u \in { A, B } } \cup { << "SENT" >> }
ReadCmds == { Cmd(<< << "READ" >>, u, i >>) : u \in Names, i \in IdArgs }
                 \cup { Cmd(<< << "READ" >>, A, NotANumber >>) }
DeleteCmds == { Cmd(<< << "DELETE" >>, u, i >>) : u \in Names, i \in IdArgs }
                 \cup { Cmd(<< << "DELETE" >>, A >>) }
ForwardCmds ==
    { Cmd(<< << "FORWARD" >>, u, << "1" >>, t >>) : u \in Names, t \in { B, C } }
    \cup { Cmd(<< << "FORWARD" >>, B, << "2" >>, A >>),
           Cmd(<< << "FORWARD" >>, A, NotANumber, B >>) }
ExportCmds == { Cmd(<< << "EXPORT" >>, u, << "1" >> >>) : u \in Names }
                 \cup { Cmd(<< << "EXPORT" >>, A, << "2" >> >>) }
StatusCmds == { Cmd(<< << "STATUS" >>, A >>), << "STATUS" >> }
\* run() hands process_command non-empty payloads only (line 442)
OtherCmds == { << "HELLO" >>, << "HELLO", PIPE, "a" >> }

\* ------------------------------------------------------------ transitions
\* the fields of self and the file, as one value
Store ==
    [users |-> users, emails |-> emails, email_id_counter |-> email_id_counter,
     disk |-> disk, assigned |-> assigned]

\* the verb of a non-empty command: data.split("|")[0]
Verb(data) == Split(data, PIPE, -1)[1]

IsOK(resp) == Len(resp) > 0 /\ resp[1] = "OK"

\* the sockets accept() can return
Sockets == { "c1", "c2" }

\* a socket no peer has connected yet
NoConn == [st |-> "unused", peer |-> "up", rcvbuf |-> << >>]

\* the object a frame carries, pickle.loads(buf)[0]: a str (its text in val) or not
StrPayload(d) == [str |-> TRUE, val |-> d]
NoPayload == [str |-> FALSE, val |-> << >>]

\* None, for self.username and for cache['last_sync']
NoUser == << >>
NoSync == << >>

\* the usernames the client's user types
ClientUsers == { A, B }

\* self.cache of __init__ (lines 45-49); inbox_for and sent_for are history:
\* the username the list was loaded or synced for
EmptyCache ==
    [inbox |-> << >>, sent |-> << >>, last_sync |-> NoSync,
     inbox_for |-> NoUser, sent_for |-> NoUser]

\* a <username>_data.json that does not exist
NoUserFile == [exists |-> FALSE, cache |-> EmptyCache]

\* no message has been read yet
NoEmail ==
    [id |-> << >>, from |-> << >>, to |-> << >>, subject |-> << >>, body |-> << >>,
     timestamp |-> << >>]

\* the connections of run() before any peer connects
\* a connection on which nothing was written yet, and a peer that has not
\* called receive()
NoBytes ==
    [out |-> << >>, in |-> << >>, closed |-> FALSE, at |-> "idle", size |-> 0, buf |-> << >>,
     sent |-> << >>, got |-> << >>, ended |-> FALSE]

MuxStart ==
    /\ clients = 0
    /\ running = TRUE
    /\ inputs = {}
    /\ clientmap = {}
    /\ chan = [s \in Sockets |-> NoConn]
    /\ event = [kind |-> "none", sock |-> "none"]
    /\ erred = {}
    /\ outputs = {}
    /\ server = "listening"
    /\ stream = NoBytes
    /\ logins = {}

\* EmailClient.__init__ with an empty client_data directory
ClientStart ==
    /\ client_username = NoUser
    /\ logged_in = FALSE
    /\ connected = FALSE
    /\ cache = EmptyCache
    /\ files = [u \in ClientUsers |-> NoUserFile]
    /\ drafts = [u \in ClientUsers |-> << >>]
    /\ shown_email = NoEmail
    /\ pc = "menu"
    /\ ret = << >>
    /\ inflight = << >>
    /\ arrived = << >>
    /\ clock = 1
    /\ subject_sent = << >>
    /\ in_row = FALSE

Init ==
    /\ users = EmptyDict
    /\ emails = << >>
    /\ email_id_counter = 0
    /\ disk = NoFile
    /\ lastCmd = << >>
    /\ response = << >>
    /\ assigned = {}
    /\ deleted = {}
    /\ before = Store
    /\ MuxStart
    /\ ClientStart
    /\ faults = FALSE

\* response = self.process_command(data), for the non-empty data run() passes on
Dispatch(data, now) ==
    \* the outcome is bound once, so that the handler is evaluated once per step
    \E o \in { process_command(data, now) } :
    /\ o.email_id_counter <= MaxId
    /\ users' = o.users
    /\ emails' = o.emails
    /\ email_id_counter' = o.email_id_counter
    /\ disk' = o.disk
    /\ lastCmd' = data
    /\ response' = o.resp
    /\ assigned' = IF o.email_id_counter # email_id_counter
                   THEN assigned \cup { o.email_id_counter }
                   ELSE assigned
    /\ deleted' = IF Len(data) > 0 /\ Verb(data) = << "DELETE" >> /\ IsOK(o.resp)
                  THEN deleted \cup { PyInt(Split(data, PIPE, -1)[3]) }
                  ELSE deleted
    /\ before' = Store

\* One iteration of run() for a readable client socket that delivers data,
\* the connections left aside
Process(data, now) == Dispatch(data, now) /\ UNCHANGED << muxVars, clientVars >>

Register == \E data \in RegisterCmds, now \in Timestamps : Process(data, now)
Login == \E data \in LoginCmds, now \in Timestamps : Process(data, now)
Send == \E data \in SendCmds, now \in Timestamps : Process(data, now)
Inbox == \E data \in InboxCmds, now \in Timestamps : Process(data, now)
Sent == \E data \in SentCmds, now \in Timestamps : Process(data, now)
Read == \E data \in ReadCmds, now \in Timestamps : Process(data, now)
Delete == \E data \in DeleteCmds, now \in Timestamps : Process(data, now)
Forward == \E data \in ForwardCmds, now \in Timestamps : Process(data, now)
Export == \E data \in ExportCmds, now \in Timestamps : Process(data, now)
Status == \E data \in StatusCmds, now \in Timestamps : Process(data, now)
Other == \E data \in OtherCmds, now \in Timestamps : Process(data, now)

\* The process ends and a new one is constructed: __init__ sets the defaults and
\* load_server_data() overwrites them from server_db.json when the file exists
Restart ==
    /\ users' = IF disk.exists THEN disk.users ELSE EmptyDict
    /\ emails' = IF disk.exists THEN disk.emails ELSE << >>
    /\ email_id_counter' = IF disk.exists THEN disk.email_id_counter ELSE 0
    /\ lastCmd' = << >>
    /\ response' = << >>
    /\ before' = Store
    /\ UNCHANGED << disk, assigned, deleted >>
    /\ UNCHANGED << muxVars, clientVars >>

Next ==
    \/ Register \/ Login \/ Send \/ Inbox \/ Sent \/ Read \/ Delete
    \/ Forward \/ Export \/ Status \/ Other \/ Restart

Spec == Init /\ [][Next]_vars

\* ------------------------------------------------------ the loop of run()
\* the payloads the peers put in a frame: commands that are well formed, commands
\* with a field missing, a non-numeric id, an unknown verb, the empty string,
\* and an object that is not a string (the integer 5)
WellFormedPayloads ==
    { StrPayload(d) : d \in { Cmd(<< << "REGISTER" >>, A, << "p" >> >>),
                              Cmd(<< << "SEND" >>, A, A, << "s" >>, << "x" >> >>),
                              Cmd(<< << "READ" >>, A, << "1" >> >>) } }

MalformedPayloads ==
    { StrPayload(d) : d \in { Cmd(<< << "READ" >>, A >>),
                              Cmd(<< << "READ" >>, A, NotANumber >>),
                              << "HELLO" >>,
                              << >> } }
    \cup { [str |-> FALSE, val |-> << "5" >>] }

MuxPayloads == WellFormedPayloads \cup MalformedPayloads

\* bool(data) of "if data:" (line 442)
Truthy(p) == IF p.str THEN Len(p.val) > 0 ELSE p.val \notin { << "0" >>, << >> }

\* every socket of the list removed in place of the one
DropSocket_all(set, s) == {}

\* inputs.remove(sock), del self.clientmap[sock]
DropSocket(set, s) == set \ { s }

\* select() reports the socket readable: a frame, an end of stream or a reset waits
Readable(s) == s \in inputs /\ (chan[s].rcvbuf # << >> \/ chan[s].peer # "up")

Note(kind, s) == event' = [kind |-> kind, sock |-> s]

\* the sockets and usernames of the LOGIN commands answered OK so far, the
\* command of socket s counted
Logins(s, data) ==
    IF Verb(data) = << "LOGIN" >> /\ IsOK(response')
    THEN logins \cup { << s, Split(data, PIPE, -1)[2] >> }
    ELSE logins

\* a peer connects; the connection waits in the backlog of listen()
PeerConnects(s) ==
    /\ running
    /\ chan[s].st = "unused"
    /\ chan' = [chan EXCEPT ![s].st = "backlog"]
    /\ UNCHANGED << clientVars, storeVars, clients, running, inputs, clientmap, event, erred, outputs, server, stream, logins >>

\* a peer writes one frame on its accepted connection; it writes the next one
\* once this one was read
PeerSends(s, p) ==
    /\ running
    /\ chan[s].st = "open"
    /\ chan[s].peer = "up"
    /\ chan[s].rcvbuf = << >>
    /\ chan' = [chan EXCEPT ![s].rcvbuf = << p >>]
    /\ UNCHANGED << clientVars, storeVars, clients, running, inputs, clientmap, event, erred, outputs, server, stream, logins >>

\* a peer closes its end ("fin") or the connection is reset ("rst")
PeerLeaves(s, how) ==
    /\ running
    /\ chan[s].st \in { "backlog", "open" }
    /\ chan[s].peer = "up"
    /\ chan' = [chan EXCEPT ![s].peer = how]
    /\ UNCHANGED << clientVars, storeVars, clients, running, inputs, clientmap, event, erred, outputs, server, stream, logins >>

\* lines 429-436: the listening socket is readable
accept(s) ==
    /\ running
    /\ chan[s].st = "backlog"
    /\ clients' = clients + 1
    /\ inputs' = inputs \cup { s }
    /\ clientmap' = clientmap \cup { s }
    /\ chan' = [chan EXCEPT ![s].st = "open"]
    /\ Note("accept", s)
    /\ UNCHANGED << clientVars, storeVars, running, erred, outputs, server, stream, logins >>

\* a loop that serves a command naming a user only on a socket whose LOGIN for
\* that user it has answered OK
Answered_session(s, now) ==
    /\ running
    /\ Readable(s)
    /\ chan[s].rcvbuf # << >>
    /\ Head(chan[s].rcvbuf).str
    /\ Truthy(Head(chan[s].rcvbuf))
    /\ LET data == Head(chan[s].rcvbuf).val
           parts == Split(data, PIPE, -1)
       IN  IF /\ Verb(data) \notin { << "REGISTER" >>, << "LOGIN" >> }
              /\ Len(parts) >= 2
              /\ << s, parts[2] >> \notin logins
           THEN /\ lastCmd' = data
                /\ response' = ERR(<< "Not logged in" >>)
                /\ before' = Store
                /\ UNCHANGED << users, emails, email_id_counter, disk, assigned, deleted >>
           ELSE Dispatch(data, now)
    /\ chan' = [chan EXCEPT ![s].rcvbuf = Tail(@)]
    /\ Note("answered", s)
    /\ logins' = Logins(s, Head(chan[s].rcvbuf).val)
    /\ UNCHANGED << clientVars, clients, running, inputs, clientmap, erred, outputs, server, stream >>

\* lines 440-455: receive() returns a non-empty string, the command is processed
\* and send(sock, response) hands the response to the socket
Answered(s, now) ==
    /\ running
    /\ Readable(s)
    /\ chan[s].rcvbuf # << >>
    /\ Head(chan[s].rcvbuf).str
    /\ Truthy(Head(chan[s].rcvbuf))
    /\ Dispatch(Head(chan[s].rcvbuf).val, now)
    /\ chan' = [chan EXCEPT ![s].rcvbuf = Tail(@)]
    /\ Note("answered", s)
    /\ logins' = Logins(s, Head(chan[s].rcvbuf).val)
    /\ UNCHANGED << clientVars, clients, running, inputs, clientmap, erred, outputs, server, stream >>

\* lines 440-454 and 467-474: the command is processed, then send() raises
\* socket.error because the peer is gone
AnswerFails(s, now) ==
    /\ running
    /\ Readable(s)
    /\ chan[s].rcvbuf # << >>
    /\ chan[s].peer # "up"
    /\ Head(chan[s].rcvbuf).str
    /\ Truthy(Head(chan[s].rcvbuf))
    /\ Dispatch(Head(chan[s].rcvbuf).val, now)
    /\ chan' = [chan EXCEPT ![s].rcvbuf = Tail(@)]
    /\ inputs' = DropSocket(inputs, s)
    /\ clientmap' = DropSocket(clientmap, s)
    /\ erred' = erred \cup { s }
    /\ Note("senderror", s)
    /\ outputs' = DropSocket(outputs, s)
    /\ logins' = Logins(s, Head(chan[s].rcvbuf).val)
    /\ UNCHANGED << clientVars, clients, running, server, stream >>

\* lines 457-465: receive() returns a falsy value, '' at the end of the stream
\* (lines 25-28) or a falsy payload
Disconnected(s) ==
    /\ running
    /\ Readable(s)
    /\ \/ chan[s].rcvbuf = << >> /\ chan[s].peer = "fin"
       \/ chan[s].rcvbuf # << >> /\ ~Truthy(Head(chan[s].rcvbuf))
    /\ clients' = clients - 1
    /\ chan' = [chan EXCEPT ![s].st = "closed", ![s].rcvbuf = << >>]
    /\ inputs' = DropSocket(inputs, s)
    /\ clientmap' = DropSocket(clientmap, s)
    /\ Note("disconnected", s)
    /\ outputs' = DropSocket(outputs, s)
    /\ UNCHANGED << clientVars, storeVars, running, erred, server, stream, logins >>

\* lines 440 and 467-474: recv() raises socket.error on a reset connection
ReceiveFails(s) ==
    /\ running
    /\ Readable(s)
    /\ chan[s].rcvbuf = << >>
    /\ chan[s].peer = "rst"
    /\ inputs' = DropSocket(inputs, s)
    /\ clientmap' = DropSocket(clientmap, s)
    /\ erred' = erred \cup { s }
    /\ Note("recverror", s)
    /\ outputs' = DropSocket(outputs, s)
    /\ UNCHANGED << clientVars, storeVars, clients, running, chan, server, stream, logins >>

\* line 444: data.split raises AttributeError on a payload that is not a string;
\* only socket.error is caught (line 467), the exception leaves run()
Crashed(s) ==
    /\ running
    /\ Readable(s)
    /\ chan[s].rcvbuf # << >>
    /\ ~Head(chan[s].rcvbuf).str
    /\ Truthy(Head(chan[s].rcvbuf))
    /\ running' = FALSE
    /\ chan' = [chan EXCEPT ![s].rcvbuf = Tail(@)]
    /\ Note("crashed", s)
    /\ UNCHANGED << clientVars, storeVars, clients, inputs, clientmap, erred, outputs, server, stream, logins >>

NextMux ==
    \/ \E s \in Sockets : PeerConnects(s)
    \/ \E s \in Sockets, p \in MuxPayloads : PeerSends(s, p)
    \/ \E s \in Sockets, how \in { "fin", "rst" } : PeerLeaves(s, how)
    \/ \E s \in Sockets : accept(s)
    \/ \E s \in Sockets, now \in Timestamps : Answered(s, now)
    \/ \E s \in Sockets, now \in Timestamps : AnswerFails(s, now)
    \/ \E s \in Sockets : Disconnected(s)
    \/ \E s \in Sockets : ReceiveFails(s)
    \/ \E s \in Sockets : Crashed(s)

SpecMux == Init /\ [][NextMux]_vars

\* two connections on which a user is registered, logs in, sends and reads
SessionPayloads ==
    { StrPayload(d) : d \in { Cmd(<< << "REGISTER" >>, A, << "p" >> >>),
                              Cmd(<< << "LOGIN" >>, A, << "p" >> >>),
                              Cmd(<< << "SEND" >>, A, A, << "s" >>, << "x" >> >>),
                              Cmd(<< << "INBOX" >>, A >>),
                              Cmd(<< << "READ" >>, A, << "1" >> >>) } }

NextSession ==
    \/ \E s \in Sockets : PeerConnects(s)
    \/ \E s \in Sockets, p \in SessionPayloads : PeerSends(s, p)
    \/ \E s \in Sockets : accept(s)
    \/ \E s \in Sockets, now \in Timestamps : Answered(s, now)

SpecSession == Init /\ [][NextSession]_vars

\* ------------------------------------- the loop of run(), statement by statement
\* every statement of the loop body is reached from the one before it
AtSelect_always == TRUE

\* lines 419-427: the loop stands at select.select(); the body of "for sock in
\* readable" has run to its end for the socket taken before, so no command is
\* read and not yet answered
AtSelect == event.kind \notin { "received", "processed" }

\* line 440: data = receive(sock) returns a non-empty command
received(s) ==
    /\ running
    /\ AtSelect
    /\ Readable(s)
    /\ chan[s].rcvbuf # << >>
    /\ Head(chan[s].rcvbuf).str
    /\ Truthy(Head(chan[s].rcvbuf))
    /\ lastCmd' = Head(chan[s].rcvbuf).val
    /\ chan' = [chan EXCEPT ![s].rcvbuf = Tail(@)]
    /\ Note("received", s)
    /\ UNCHANGED << users, emails, email_id_counter, disk, response, assigned, deleted, before >>
    /\ UNCHANGED << clientVars, clients, running, inputs, clientmap, erred, outputs, server, stream, logins >>

\* line 451: response = self.process_command(data), the handler with its change
\* of the store and its save_server_data()
processed(now) ==
    /\ running
    /\ event.kind = "received"
    /\ Dispatch(lastCmd, now)
    /\ Note("processed", event.sock)
    /\ logins' = Logins(event.sock, lastCmd)
    /\ UNCHANGED << clientVars, clients, running, inputs, clientmap, chan, erred, outputs, server, stream >>

\* line 454: send(sock, response); lines 467-474 when it raises socket.error
\* because the peer is gone
responded ==
    /\ running
    /\ event.kind = "processed"
    /\ \/ /\ Note("answered", event.sock)
          /\ UNCHANGED << inputs, clientmap, erred, outputs >>
       \/ /\ chan[event.sock].peer # "up"
          /\ inputs' = DropSocket(inputs, event.sock)
          /\ clientmap' = DropSocket(clientmap, event.sock)
          /\ outputs' = DropSocket(outputs, event.sock)
          /\ erred' = erred \cup { event.sock }
          /\ Note("senderror", event.sock)
    /\ UNCHANGED << clientVars, storeVars, clients, running, chan, server, stream, logins >>

\* lines 98-106: SIGINT arrives, at any statement of the loop: the sockets of
\* self.outputs are closed, then the listening socket, and sys.exit(0) ends run()
sighandler ==
    /\ running
    /\ chan' = [s \in Sockets |-> IF s \in outputs THEN [chan[s] EXCEPT !.st = "closed"]
                                                   ELSE chan[s]]
    /\ server' = "closed"
    /\ running' = FALSE
    /\ Note("sighandler", "none")
    /\ UNCHANGED << clientVars, storeVars, clients, inputs, clientmap, erred, outputs, stream, logins >>

NextSeq ==
    \/ \E s \in Sockets : PeerConnects(s)
    \/ \E s \in Sockets, p \in WellFormedPayloads : PeerSends(s, p)
    \/ \E s \in Sockets : PeerLeaves(s, "fin")
    \/ \E s \in Sockets : AtSelect /\ accept(s)
    \/ \E s \in Sockets : received(s)
    \/ \E now \in Timestamps : processed(now)
    \/ responded
    \/ \E s \in Sockets : AtSelect /\ Disconnected(s)
    \/ sighandler

SpecSeq == Init /\ [][NextSeq]_vars

\* ------------------------------------------------ send() and receive(), in bytes
\* a byte is a number below Base
Base == 6

\* struct.calcsize("L"), in bytes of the model
HeaderSize == 2

MaxFrames == 2

\* the strings handed to send(), as bytes
FramePayloads == { << 1 >>, << 2, 3 >> }

\* pickle.dumps(args): an opening opcode, the content, the STOP opcode
dumps(p) == << Base - 2 >> \o p \o << Base - 1 >>

\* the value receive() returns when pickle.loads raises
Raised == << Base >>

\* pickle.loads(buf)[0]
loads(b) ==
    IF Len(b) >= 2 /\ b[1] = Base - 2 /\ b[Len(b)] = Base - 1
    THEN SubSeq(b, 2, Len(b) - 1)
    ELSE Raised

RECURSIVE Power(_, _)
Power(b, e) == IF e = 0 THEN 1 ELSE b * Power(b, e - 1)

\* struct.pack("L", socket.htonl(n)): n in HeaderSize bytes
pack(n) == [i \in 1..HeaderSize |-> (n \div Power(Base, HeaderSize - i)) % Base]

RECURSIVE unpack(_)
\* socket.ntohl(struct.unpack("L", size)[0]) of HeaderSize bytes
unpack(h) == IF h = << >> THEN 0 ELSE unpack(SubSeq(h, 1, Len(h) - 1)) * Base + h[Len(h)]

\* socket.ntohl raises OverflowError on a number of more than 32 bits, which the
\* bytes of a well-formed size never give: pack() leaves the upper half zero
Overflows(h) == unpack(h) >= Power(Base, HeaderSize - 1)

\* channel.recv(n): the bytes that have arrived, n of them at most
recv(n) == SubSeq(stream.in, 1, IF n < Len(stream.in) THEN n ELSE Len(stream.in))

\* recv() does not block: bytes have arrived, or the stream has ended
CanRecv == stream.in # << >> \/ (stream.closed /\ stream.out = << >>)

FrameStep == UNCHANGED << storeVars, clientVars, clients, running, inputs, clientmap, chan,
                          event, erred, outputs, server, logins >>

\* lines 13-19: send(channel, payload) writes the size and the pickled payload
send(p) ==
    /\ ~stream.closed
    /\ Len(stream.sent) < MaxFrames
    /\ stream' = [stream EXCEPT !.out = @ \o pack(Len(dumps(p))) \o dumps(p),
                                !.sent = Append(@, p)]
    /\ FrameStep

\* the transport carries the next k bytes to the peer
arrive(k) ==
    /\ k <= Len(stream.out)
    /\ stream' = [stream EXCEPT !.out = SubSeq(@, k + 1, Len(@)),
                                !.in = @ \o SubSeq(stream.out, 1, k)]
    /\ FrameStep

\* a peer writes the size and the first k bytes of the body of a frame, and
\* closes the connection
send_partial(p, k) ==
    /\ ~stream.closed
    /\ Len(stream.sent) < MaxFrames
    /\ k < Len(dumps(p))
    /\ stream' = [stream EXCEPT !.out = @ \o pack(Len(dumps(p))) \o SubSeq(dumps(p), 1, k),
                                !.closed = TRUE]
    /\ FrameStep

\* the sender closes the connection
close ==
    /\ ~stream.closed
    /\ stream' = [stream EXCEPT !.closed = TRUE]
    /\ FrameStep

\* lines 23-29: receive() is called on a readable socket and reads the size.
\* Fewer bytes than HeaderSize make struct.unpack raise struct.error and the
\* call return ''; a call that finds the stream ended returns '' too, which
\* is how a disconnect is seen, and is not recorded in got. Bytes that are not
\* a size make ntohl, or pickle.loads of nothing, raise
receive_size ==
    /\ stream.at = "idle"
    /\ CanRecv
    /\ \E h \in { recv(HeaderSize) } :
          stream' = [stream EXCEPT
                        !.in = SubSeq(@, Len(h) + 1, Len(@)),
                        !.at = IF Len(h) = 0 THEN "eof"
                               ELSE IF Len(h) < HeaderSize \/ Overflows(h) \/ unpack(h) = 0
                               THEN "idle"
                               ELSE "body",
                        !.size = IF Len(h) < HeaderSize \/ Overflows(h) THEN 0 ELSE unpack(h),
                        !.buf = << >>,
                        !.got = IF Len(h) = 0 THEN @
                                ELSE IF Len(h) < HeaderSize THEN Append(@, << >>)
                                ELSE IF Overflows(h) \/ unpack(h) = 0 THEN Append(@, Raised)
                                ELSE @]
    /\ FrameStep

\* lines 30-32: one turn of "while len(buf) < size: buf = channel.recv(size -
\* len(buf))", and the return of pickle.loads(buf)[0] when the loop ends;
\* ended records that this recv() returned nothing, the stream having ended
receive_body ==
    /\ stream.at = "body"
    /\ CanRecv
    /\ \E chunk \in { recv(stream.size - Len(stream.buf)) } :
          stream' = [stream EXCEPT
                        !.in = SubSeq(@, Len(chunk) + 1, Len(@)),
                        !.buf = chunk,
                        !.ended = (Len(chunk) = 0),
                        !.at = IF Len(chunk) < stream.size THEN "body" ELSE "idle",
                        !.got = IF Len(chunk) < stream.size THEN @ ELSE Append(@, loads(chunk))]
    /\ FrameStep

NextFrame ==
    \/ \E p \in FramePayloads : send(p)
    \/ \E p \in FramePayloads, k \in 0..HeaderSize : send_partial(p, k)
    \/ \E k \in 1..(MaxFrames * (HeaderSize + 4)) : arrive(k)
    \/ close
    \/ receive_size
    \/ receive_body

SpecFrame == Init /\ [][NextFrame]_vars

\* ------------------------------------------------------------ the client
\* str.startswith(word), for the words OK, EMPTY and ERROR: every response
\* begins with one of them followed by "|", or is the empty string
StartsWith(s, word) == Len(s) > 0 /\ s[1] = word

Whitespace == { " ", "\n", "\t" }

\* email_str.strip() is the empty string
Blank(s) == \A i \in 1..Len(s) : s[i] \in Whitespace

\* str.replace(old, new) for a one-character old
Replace(s, old, new) == [i \in 1..Len(s) |-> IF s[i] = old THEN new ELSE s[i]]

\* lines 201-212: the list sync_inbox builds from emails_data
InboxEntries(emails_data) ==
    LET strs == SelectSeq(Split(emails_data, ";", -1), LAMBDA x : ~Blank(x))
        flds == [i \in 1..Len(strs) |-> Split(strs[i], "~", -1)]
        kept == SelectSeq(flds, LAMBDA f : Len(f) >= 5)
    IN  [i \in 1..Len(kept) |->
            [id |-> kept[i][1], from |-> kept[i][2], subject |-> kept[i][3],
             timestamp |-> kept[i][4], read |-> kept[i][5] = << "READ" >>]]

\* lines 235-245: the list sync_sent builds from emails_data
SentEntries(emails_data) ==
    LET strs == SelectSeq(Split(emails_data, ";", -1), LAMBDA x : ~Blank(x))
        flds == [i \in 1..Len(strs) |-> Split(strs[i], "~", -1)]
        kept == SelectSeq(flds, LAMBDA f : Len(f) >= 4)
    IN  [i \in 1..Len(kept) |->
            [id |-> kept[i][1], to |-> kept[i][2], subject |-> kept[i][3],
             timestamp |-> kept[i][4]]]

\* a failed sync empties the list it could not refresh
sync_inbox_dropStale(c, user, resp, now) ==
    IF StartsWith(resp, "OK") /\ Len(Split(resp, PIPE, 2)) >= 3
    THEN [cache |-> [c EXCEPT !.inbox = InboxEntries(Split(resp, PIPE, 2)[3]),
                              !.last_sync = now, !.inbox_for = user],
          ret |-> InboxEntries(Split(resp, PIPE, 2)[3])]
    ELSE [cache |-> [c EXCEPT !.inbox = << >>, !.inbox_for = user], ret |-> << >>]

\* sync_inbox on the response send_command returned: the cache it leaves and
\* the list it returns
sync_inbox(c, user, resp, now) ==
    IF StartsWith(resp, "EMPTY")
    THEN [cache |-> [c EXCEPT !.inbox = << >>, !.last_sync = now, !.inbox_for = user],
          ret |-> << >>]
    ELSE IF ~StartsWith(resp, "OK")
    THEN [cache |-> c, ret |-> c.inbox]
    ELSE LET parts == Split(resp, PIPE, 2) IN
         IF Len(parts) < 3
         THEN [cache |-> c, ret |-> << >>]
         ELSE LET parsed == InboxEntries(parts[3]) IN
              [cache |-> [c EXCEPT !.inbox = parsed, !.last_sync = now,
                                   !.inbox_for = user],
               ret |-> parsed]

\* sync_sent on the response send_command returned
sync_sent(c, user, resp) ==
    IF StartsWith(resp, "EMPTY")
    THEN [cache |-> [c EXCEPT !.sent = << >>, !.sent_for = user], ret |-> << >>]
    ELSE IF ~StartsWith(resp, "OK")
    THEN [cache |-> c, ret |-> c.sent]
    ELSE LET parts == Split(resp, PIPE, 2) IN
         IF Len(parts) < 3
         THEN [cache |-> c, ret |-> << >>]
         ELSE LET parsed == SentEntries(parts[3]) IN
              [cache |-> [c EXCEPT !.sent = parsed, !.sent_for = user], ret |-> parsed]

\* lines 466-476: the dict read_email builds from an OK response
ParseRead(resp) ==
    LET parts == Split(resp, PIPE, 6) IN
    IF Len(parts) >= 7
    THEN [id |-> parts[2], from |-> parts[3], to |-> parts[4], subject |-> parts[5],
          body |-> parts[6], timestamp |-> parts[7]]
    ELSE NoEmail

\* lines 487-489: cached entries with this id are marked read
MarkRead(inbox, msg_id) ==
    [i \in 1..Len(inbox) |->
        IF inbox[i].id = Str(msg_id) THEN [inbox[i] EXCEPT !.read = TRUE] ELSE inbox[i]]

\* line 357: compose_email's subject
ComposeSubject(subject) == Replace(Replace(Replace(subject, PIPE, "-"), "~", "-"), ";", ",")

\* line 662: resume_draft's subject
ResumeSubject(subject) == Replace(Replace(subject, PIPE, "-"), "~", "-")

\* lines 533-534: reply_email's subject and body
ReplySubject(original) == << "RE: " >> \o original.subject
ReplyBody(body, original) ==
    body \o << "\n", "\n", "--- Original Message ---", "\n" >> \o original.body

\* load_user_data: the cache after it, for the user who logs in
load_user_data(user) == IF files[user].exists THEN files[user].cache ELSE cache

\* save_user_data, once the step has set self.cache
save_user_data ==
    files' = IF client_username = NoUser THEN files
             ELSE [files EXCEPT ![client_username] = [exists |-> TRUE, cache |-> cache']]

\* del drafts[index] of delete_draft (index counts from 0)
delete_draft(ds, index) ==
    IF 0 <= index /\ index < Len(ds)
    THEN SubSeq(ds, 1, index) \o SubSeq(ds, index + 2, Len(ds))
    ELSE ds

\* the values of datetime.now().strftime(...) in the client, second after second
ClientTimes == << << "2025-01-01 10:00:05" >>, << "2025-01-01 10:00:06" >> >>

\* what select() or the socket calls of send_command can fail with
TransportErrors == { << "Connection error" >> }

\* a command on its way, and whether the connection it was written on is open
Pending(command) == [cmd |-> command, live |-> TRUE]
Orphaned(q) == [i \in 1..Len(q) |-> [q[i] EXCEPT !.live = FALSE]]

\* the server handles a command of the client: the store after process_command
\* (the history of the server's commands is not kept for the client's)
handled(data, now, o) ==
    /\ o = process_command(data, now)
    /\ o.email_id_counter <= MaxId
    /\ users' = o.users
    /\ emails' = o.emails
    /\ email_id_counter' = o.email_id_counter
    /\ disk' = o.disk
    /\ UNCHANGED << lastCmd, response, assigned, deleted, before >>

\* what receive() returns when recv() finds the stream ended (lines 23-27): ''
EndOfStream == << >>

\* response.split('|')[1] raises IndexError
Unprintable(resp) == Len(Split(resp, PIPE, -1)) < 2

\* a call that times out gives the connection up as well
MarkedDead_onTimeout(outcome) == outcome \in { "exceptional", "exception", "timeout" }

\* lines 100-112: the outcomes of the wait on which self.connected is set to False
MarkedDead(outcome) == outcome \in { "exceptional", "exception" }

\* send_command(command): it sets ret to the value returned
send_command(command, now) ==
    \/ \* lines 86-88: not connected, and the connection attempt fails
       /\ faults
       /\ ~connected
       /\ ret' = ERR(<< "Not connected to server" >>)
       /\ UNCHANGED << storeVars, connected, inflight, arrived >>
    \/ \* lines 104-106: the socket is readable at once; what waits on it is the
       \* response to an earlier command, or the end of the stream (which stays)
       /\ arrived # << >>
       /\ ret' = Head(arrived)
       /\ IF Head(arrived) = EndOfStream
          THEN UNCHANGED << arrived, inflight >>
          ELSE /\ arrived' = Tail(arrived)
               /\ inflight' = Append(inflight, Pending(command))
       /\ UNCHANGED << storeVars, connected >>
    \/ \* lines 104-106: the peer closes the connection while the client waits;
       \* the socket is readable and receive() returns ''
       /\ faults
       /\ arrived = << >>
       /\ ret' = EndOfStream
       /\ arrived' = << EndOfStream >>
       /\ inflight' = Orphaned(inflight)
       /\ connected' = ~MarkedDead("readable")
       /\ UNCHANGED storeVars
    \/ \* lines 104-106: the server handles the oldest waiting command of this
       \* connection within the 10 seconds and its response is read
       /\ arrived = << >>
       /\ \A i \in 1..Len(inflight) : inflight[i].live
       /\ \E o \in { process_command(Head(Append(inflight, Pending(command))).cmd, now) } :
             handled(Head(Append(inflight, Pending(command))).cmd, now, o) /\ ret' = o.resp
       /\ inflight' = Tail(Append(inflight, Pending(command)))
       /\ connected' = ~MarkedDead("readable")
       /\ UNCHANGED arrived
    \/ \* lines 107-108: nothing arrives within the 10 seconds
       /\ faults
       /\ arrived = << >>
       /\ Len(inflight) < MaxPending
       /\ ret' = ERR(<< "Server timeout" >>)
       /\ inflight' = Append(inflight, Pending(command))
       /\ connected' = ~MarkedDead("timeout")
       /\ UNCHANGED << storeVars, arrived >>
    \/ \* lines 100-102 and 110-112: select() reports the socket exceptional, or a
       \* socket call raises; what was written on the connection may be lost
       /\ faults
       /\ \E e \in TransportErrors : ret' = ERR(e)
       /\ connected' = ~MarkedDead("exceptional")
       /\ inflight' = Orphaned(inflight)
       /\ arrived' = << >>
       /\ UNCHANGED storeVars

\* the server handles a command that timed out at the client
late(now) ==
    /\ inflight # << >>
    /\ \E o \in { process_command(Head(inflight).cmd, now) } :
          /\ handled(Head(inflight).cmd, now, o)
          /\ arrived' = IF Head(inflight).live THEN Append(arrived, o.resp) ELSE arrived
    /\ inflight' = Tail(inflight)
    /\ in_row' = IF users' = users /\ emails' = emails THEN in_row ELSE FALSE
    /\ UNCHANGED << muxVars, faults, client_username, logged_in, connected, cache, files, drafts,
                    shown_email, pc, ret, clock, subject_sent >>

\* a second passes on the client's clock
tick ==
    /\ clock < Len(ClientTimes)
    /\ clock' = clock + 1
    /\ in_row' = in_row
    /\ UNCHANGED << storeVars, muxVars, faults, client_username, logged_in, connected, cache, files,
                    drafts, shown_email, pc, ret, inflight, arrived, subject_sent >>

\* login(), lines 316-331: LOGIN, and on OK the username is set and the user's
\* file loaded
login(user, password, now) ==
    /\ pc = "menu"
    /\ ~logged_in
    /\ send_command(Cmd(<< << "LOGIN" >>, user, password >>), now)
    /\ IF StartsWith(ret', "OK")
       THEN /\ client_username' = user
            /\ logged_in' = TRUE
            /\ cache' = load_user_data(user)
            /\ pc' = "login_sync_inbox"
       ELSE /\ pc' = IF Unprintable(ret') THEN "crashed" ELSE pc
            /\ UNCHANGED << client_username, logged_in, cache >>
    /\ in_row' = FALSE
    /\ UNCHANGED << muxVars, faults, files, drafts, shown_email, clock, subject_sent >>

\* login(), line 335: self.sync_inbox()
login_sync_inbox(now) ==
    /\ pc = "login_sync_inbox"
    /\ send_command(Cmd(<< << "INBOX" >>, client_username >>), now)
    /\ cache' = sync_inbox(cache, client_username, ret', ClientTimes[clock]).cache
    /\ pc' = "login_sync_sent"
    /\ in_row' = (StartsWith(ret', "OK") \/ StartsWith(ret', "EMPTY"))
    /\ UNCHANGED << muxVars, faults, client_username, logged_in, files, drafts, shown_email, clock,
                    subject_sent >>

\* login(), line 336: self.sync_sent()
login_sync_sent(now) ==
    /\ pc = "login_sync_sent"
    /\ send_command(Cmd(<< << "SENT" >>, client_username >>), now)
    /\ cache' = sync_sent(cache, client_username, ret').cache
    /\ pc' = "menu"
    /\ in_row' = FALSE
    /\ UNCHANGED << muxVars, faults, client_username, logged_in, files, drafts, shown_email, clock,
                    subject_sent >>

\* view_inbox() with the choice R, lines 414-417: sync_inbox, save_user_data
view_inbox(now) ==
    /\ pc = "menu"
    /\ logged_in
    /\ send_command(Cmd(<< << "INBOX" >>, client_username >>), now)
    /\ cache' = sync_inbox(cache, client_username, ret', ClientTimes[clock]).cache
    /\ save_user_data
    /\ in_row' = (StartsWith(ret', "OK") \/ StartsWith(ret', "EMPTY"))
    /\ UNCHANGED << muxVars, faults, client_username, logged_in, drafts, shown_email, pc, clock,
                    subject_sent >>

\* view_inbox() with the choice of an id and a cache that is not empty (no
\* sync), then read_email(msg_id), lines 457-490
read_email(msg_id, now) ==
    /\ pc = "menu"
    /\ logged_in
    /\ cache.inbox # << >>
    /\ send_command(Cmd(<< << "READ" >>, client_username, Str(msg_id) >>), now)
    /\ IF StartsWith(ret', "OK") /\ Len(Split(ret', PIPE, 6)) >= 7
       THEN /\ shown_email' = ParseRead(ret')
            /\ cache' = [cache EXCEPT !.inbox = MarkRead(@, msg_id)]
            /\ save_user_data
            /\ pc' = "read_options"
       ELSE /\ pc' = IF ~StartsWith(ret', "OK") /\ Unprintable(ret') THEN "crashed" ELSE pc
            /\ UNCHANGED << shown_email, cache, files >>
    /\ in_row' = FALSE
    /\ UNCHANGED << muxVars, faults, client_username, logged_in, drafts, clock, subject_sent >>

\* read_email(), the choice 0 of lines 499-509
read_back ==
    /\ pc = "read_options"
    /\ pc' = "menu"
    /\ in_row' = FALSE
    /\ UNCHANGED << storeVars, muxVars, faults, client_username, logged_in, connected, cache, files,
                    drafts, shown_email, ret, inflight, arrived, clock, subject_sent >>

\* read_email(), the choice 4: reply_email(email), lines 511-540
reply_email(body, now) ==
    /\ pc = "read_options"
    /\ subject_sent' = ReplySubject(shown_email)
    /\ send_command(Cmd(<< << "SEND" >>, client_username, shown_email.from,
                           ReplySubject(shown_email), ReplyBody(body, shown_email) >>), now)
    /\ pc' = IF StartsWith(ret', "OK") THEN "sync_sent"
             ELSE IF Unprintable(ret') THEN "crashed" ELSE "menu"
    /\ in_row' = FALSE
    /\ UNCHANGED << muxVars, faults, client_username, logged_in, cache, files, drafts, shown_email,
                    clock >>

\* compose_email(), lines 350-391: the message is sent
compose_email(recipient, subject, body, now) ==
    /\ pc = "menu"
    /\ logged_in
    /\ subject_sent' = ComposeSubject(subject)
    /\ send_command(Cmd(<< << "SEND" >>, client_username, recipient,
                           ComposeSubject(subject), body >>), now)
    /\ pc' = IF StartsWith(ret', "OK") THEN "sync_sent"
             ELSE IF Unprintable(ret') THEN "crashed" ELSE "menu"
    /\ in_row' = FALSE
    /\ UNCHANGED << muxVars, faults, client_username, logged_in, cache, files, drafts, shown_email,
                    clock >>

\* compose_email(), lines 369-377: SAVE typed as the first line of the message
save_draft(recipient, subject) ==
    /\ pc = "menu"
    /\ logged_in
    /\ Len(drafts[client_username]) < MaxDrafts
    /\ drafts' = [drafts EXCEPT ![client_username] =
                    Append(@, [to |-> recipient, subject |-> ComposeSubject(subject),
                               body |-> << >>])]
    /\ in_row' = FALSE
    /\ UNCHANGED << storeVars, muxVars, faults, client_username, logged_in, connected, cache, files,
                    shown_email, pc, ret, inflight, arrived, clock, subject_sent >>

\* resume_draft(index, draft_data) with the choice 2 (a new body), lines
\* 655-697; new_subject is << >> when the user keeps the subject
resume_draft(index, new_subject, body, now) ==
    /\ pc = "menu"
    /\ logged_in
    /\ index < Len(drafts[client_username])
    /\ LET draft_data == drafts[client_username][index + 1]
           subject == ResumeSubject(IF new_subject # << >> THEN new_subject
                                    ELSE draft_data.subject)
       IN  /\ subject_sent' = subject
           /\ send_command(Cmd(<< << "SEND" >>, client_username, draft_data.to,
                                  subject, body >>), now)
    /\ IF StartsWith(ret', "OK")
       THEN /\ drafts' = [drafts EXCEPT ![client_username] = delete_draft(@, index)]
            /\ pc' = "sync_sent"
       ELSE /\ pc' = IF Unprintable(ret') THEN "crashed" ELSE pc
            /\ UNCHANGED drafts
    /\ in_row' = FALSE
    /\ UNCHANGED << muxVars, faults, client_username, logged_in, cache, files, shown_email, clock >>

\* resume_draft(index, draft_data) with the choice 0, lines 685-686: nothing
\* is sent and nothing is deleted
resume_cancel(index) ==
    /\ pc = "menu"
    /\ logged_in
    /\ index < Len(drafts[client_username])
    /\ in_row' = FALSE
    /\ UNCHANGED << storeVars, muxVars, faults, client_username, logged_in, connected, cache, files,
                    drafts, shown_email, pc, ret, inflight, arrived, clock, subject_sent >>

\* self.sync_sent(); self.save_user_data() after a SEND that returned OK
\* (lines 386-387, 538-539, 696-697)
sync_sent_and_save(now) ==
    /\ pc = "sync_sent"
    /\ send_command(Cmd(<< << "SENT" >>, client_username >>), now)
    /\ cache' = sync_sent(cache, client_username, ret').cache
    /\ save_user_data
    /\ pc' = "menu"
    /\ in_row' = FALSE
    /\ UNCHANGED << muxVars, faults, client_username, logged_in, drafts, shown_email, clock,
                    subject_sent >>

\* main_menu(), the choice 7, lines 814-821
logout ==
    /\ pc = "menu"
    /\ logged_in
    /\ files' = [files EXCEPT ![client_username] = [exists |-> TRUE, cache |-> cache]]
    /\ connected' = FALSE
    /\ inflight' = Orphaned(inflight)
    /\ arrived' = << >>
    /\ logged_in' = FALSE
    /\ client_username' = NoUser
    /\ in_row' = FALSE
    /\ UNCHANGED << storeVars, muxVars, faults, cache, drafts, shown_email, pc, ret, clock,
                    subject_sent >>

\* what the user types: a subject with a delimiter in it, message lines
SubjectInputs == { << "s", ";", "t" >> }
BodyInputs == { << "x", PIPE, "y" >> }
ReplyInputs == { << "r" >> }

\* whom a draft is addressed to: a registered user, and a name nobody registered
DraftRecipients == { A, C }

\* mail that another client sends while this one runs: SEND|b|a|s|x
peer_send(now) ==
    /\ Len(emails) < MaxPeerMail
    /\ \E o \in { process_command(Cmd(<< << "SEND" >>, B, A, << "s" >>, << "x" >> >>), now) } :
          handled(Cmd(<< << "SEND" >>, B, A, << "s" >>, << "x" >> >>), now, o)
    /\ in_row' = FALSE
    /\ UNCHANGED << muxVars, client_username, logged_in, connected, cache, files, drafts,
                    shown_email, pc, ret, inflight, arrived, clock, subject_sent, faults >>

CacheLogin == \E u \in ClientUsers, now \in Timestamps : login(u, << "p" >>, now)
LoginSyncInbox == \E now \in Timestamps : login_sync_inbox(now)
LoginSyncSent == \E now \in Timestamps : login_sync_sent(now)
ViewInbox == \E now \in Timestamps : view_inbox(now)
ReadEmail == \E i \in 1..MaxId, now \in Timestamps : read_email(i, now)
ResumeDraft ==
    \E index \in 0..(MaxDrafts - 1), sj \in SubjectInputs \cup { << >> }, b \in BodyInputs,
       now \in Timestamps :
        resume_draft(index, sj, b, now)

\* a server whose server_db.json holds the users a and b, both with password p
TwoUsers == [u \in ClientUsers |-> << "p" >>]

ServerWithTwoUsers ==
    /\ users = TwoUsers
    /\ emails = << >>
    /\ email_id_counter = 0
    /\ disk = save_server_data(TwoUsers, << >>, 0)
    /\ lastCmd = << >>
    /\ response = << >>
    /\ assigned = {}
    /\ deleted = {}
    /\ before = Store
    /\ MuxStart

\* User a writes, sends, reads and answers mail and keeps drafts; every
\* exchange with the server takes its course
InitMail == ServerWithTwoUsers /\ ClientStart /\ faults = FALSE

NextMail ==
    \/ \E now \in Timestamps : login(A, << "p" >>, now)
    \/ LoginSyncInbox \/ LoginSyncSent \/ ViewInbox \/ ReadEmail
    \/ read_back
    \/ \E b \in ReplyInputs, now \in Timestamps : reply_email(b, now)
    \/ \E sj \in SubjectInputs, b \in BodyInputs, now \in Timestamps :
          compose_email(A, sj, b, now)
    \/ \E r \in DraftRecipients, sj \in SubjectInputs : save_draft(r, sj)
    \/ ResumeDraft
    \/ \E index \in 0..(MaxDrafts - 1) : resume_cancel(index)
    \/ \E now \in Timestamps : sync_sent_and_save(now)
    \/ logout

SpecMail == InitMail /\ [][NextMail]_vars

\* Users a and b log in and out on one client and look at their inbox, while
\* mail arrives and exchanges with the server can time out or fail
InitCache == ServerWithTwoUsers /\ ClientStart /\ faults = TRUE

NextCache ==
    \/ CacheLogin \/ LoginSyncInbox \/ LoginSyncSent \/ ViewInbox \/ ReadEmail
    \/ read_back
    \/ logout
    \/ \E now \in Timestamps : late(now)
    \/ tick
    \/ \E now \in Timestamps : peer_send(now)

SpecCache == InitCache /\ [][NextCache]_vars

\* User a keeps drafts and sends them while mail arrives and exchanges with the
\* server can time out or fail
NextDraft ==
    \/ \E now \in Timestamps : login(A, << "p" >>, now)
    \/ LoginSyncInbox \/ LoginSyncSent \/ ViewInbox
    \/ \E r \in DraftRecipients, sj \in SubjectInputs : save_draft(r, sj)
    \/ ResumeDraft
    \/ \E index \in 0..(MaxDrafts - 1) : resume_cancel(index)
    \/ \E now \in Timestamps : sync_sent_and_save(now)
    \/ \E now \in Timestamps : late(now)
    \/ \E now \in Timestamps : peer_send(now)

SpecDraft == InitCache /\ [][NextDraft]_vars

\* ---------------------------------------------------------------- claims
\* index in list em of the message with this id, 0 if there is none
IndexOfId(em, id) ==
    IF \E i \in 1..Len(em) : em[i].id = id
    THEN CHOOSE i \in 1..Len(em) : em[i].id = id
    ELSE 0

\* the store proper: users, messages, id counter (and the file that mirrors them)
StoreUnchanged ==
    /\ users = before.users
    /\ emails = before.emails
    /\ email_id_counter = before.email_id_counter
    /\ disk = before.disk

\* passwords the LOGIN commands of this model carry
Passwords == { << "p" >>, << "q" >>, << "p", PIPE, "q" >> }

\* C1: a LOGIN naming a registered user returns OK|Welcome when it carries the
\* password that user was registered with, and ERROR|Invalid password when it
\* carries any other password.
C1_LoginMatchesRegister ==
    \A u \in DOMAIN before.users : \A q \in Passwords :
        lastCmd = Cmd(<< << "LOGIN" >>, u, q >>)
        => response = IF q = before.users[u]
                      THEN << "OK", PIPE, "Welcome " >> \o u \o << "!" >>
                      ELSE ERR(<< "Invalid password" >>)

\* lastCmd created a message (a SEND or FORWARD that returned OK)
LastCreated ==
    /\ Len(lastCmd) > 0
    /\ Verb(lastCmd) \in { << "SEND" >>, << "FORWARD" >> }
    /\ IsOK(response)

\* C2: the id given to a newly created message is greater than every id the
\* server has given before, so no id is given to two messages.
C2_IdsIncreaseNeverReused ==
    LastCreated =>
        /\ emails[Len(emails)].id \notin before.assigned
        /\ \A j \in before.assigned : j < emails[Len(emails)].id

\* C10: between commands the file holds the users, messages and id counter
\* that are in memory.
C10_SnapshotEqualsMemory ==
    /\ disk.users = users
    /\ disk.emails = emails
    /\ disk.email_id_counter = email_id_counter

\* the OK response of READ for message e
ReadResponse(e) ==
    << "OK", PIPE >> \o Str(e.id) \o << PIPE >> \o e.from \o << PIPE >> \o e.to
        \o << PIPE >> \o e.subject \o << PIPE >> \o e.body \o << PIPE >> \o e.timestamp

NotFound == << "ERROR", PIPE, "Email not found" >>
Denied == << "ERROR", PIPE, "Access denied" >>
NoRecipient == << "ERROR", PIPE, "Recipient not found" >>

EndsWith(s, suffix) ==
    Len(s) >= Len(suffix) /\ SubSeq(s, Len(s) - Len(suffix) + 1, Len(s)) = suffix

\* C3: a message id whose DELETE returned OK is absent from the store in every
\* later state, and every READ of it, by any username, returns
\* ERROR|Email not found.
C3_DeletedStaysDeleted ==
    \A i \in deleted :
        /\ IndexOfId(emails, i) = 0
        /\ \A u \in Names :
              lastCmd = Cmd(<< << "READ" >>, u, Str(i) >>) => response = NotFound

\* a READ of a deleted id that came after other messages were stored
C3_Witness ==
    \E i \in deleted : \E u \in Names :
        /\ lastCmd = Cmd(<< << "READ" >>, u, Str(i) >>)
        /\ response = NotFound
        /\ Len(emails) > 0
        /\ email_id_counter > i

\* C4: a message is created with read = false; across any step its flag never
\* goes from true to false; a READ by its recipient leaves it true; and the
\* flag changes in no step other than a successful READ by the recipient.
C4_ReadFlagFlipsOnce ==
    /\ LastCreated => emails[Len(emails)].read = FALSE
    /\ \A i \in 1..Len(before.emails) :
          LET e0 == before.emails[i]
              k  == IndexOfId(emails, e0.id)
              recipientRead == lastCmd = Cmd(<< << "READ" >>, e0.to, Str(e0.id) >>)
          IN  k # 0 =>
                /\ e0.read => emails[k].read
                /\ recipientRead => emails[k].read
                /\ emails[k].read # e0.read => recipientRead /\ IsOK(response)

\* the recipient's first READ of a message: the flag was false and is now true
C4_Witness ==
    \E i \in 1..Len(before.emails) :
        /\ lastCmd = Cmd(<< << "READ" >>, before.emails[i].to, Str(before.emails[i].id) >>)
        /\ ~before.emails[i].read
        /\ i <= Len(emails) /\ emails[i].read
        /\ before.emails[i].from # before.emails[i].to

\* C5 as stated: a READ with the sender's username returns the message and
\* leaves the read flag (the whole message list) as it was, for every sender
\* and recipient.
C5_SenderReadLeavesFlag ==
    \A i \in 1..Len(before.emails) :
        lastCmd = Cmd(<< << "READ" >>, before.emails[i].from, Str(before.emails[i].id) >>)
        => /\ response = ReadResponse(before.emails[i])
           /\ emails = before.emails

\* C5 amended: a READ with the sender's username returns the message; it leaves
\* the store unchanged when the sender is not the recipient, and sets the read
\* flag of that message (and nothing else) when the sender is the recipient.
C5_SenderReadLeavesFlagUnlessRecipient ==
    \A i \in 1..Len(before.emails) :
        LET e0 == before.emails[i] IN
        lastCmd = Cmd(<< << "READ" >>, e0.from, Str(e0.id) >>)
        => /\ response = ReadResponse(e0)
           /\ e0.from # e0.to => StoreUnchanged
           /\ e0.from = e0.to => emails = [before.emails EXCEPT ![i].read = TRUE]

\* the sender of an unread message addressed to someone else has read it
C5_Witness ==
    \E i \in 1..Len(before.emails) :
        /\ lastCmd = Cmd(<< << "READ" >>, before.emails[i].from, Str(before.emails[i].id) >>)
        /\ before.emails[i].from # before.emails[i].to
        /\ IsOK(response)
        /\ ~emails[i].read

\* the READ, DELETE, EXPORT and FORWARD commands of username u on message id
AccessCmds(u, id) ==
    { Cmd(<< << "READ" >>, u, Str(id) >>),
      Cmd(<< << "DELETE" >>, u, Str(id) >>),
      Cmd(<< << "EXPORT" >>, u, Str(id) >>) }
    \cup { Cmd(<< << "FORWARD" >>, u, Str(id), t >>) : t \in Names }

\* C6: READ, DELETE, FORWARD or EXPORT of an existing message by a username
\* that is neither its sender nor its recipient returns ERROR|Access denied
\* and leaves users, messages, id counter and snapshot file unchanged.
C6_ThirdPartyDenied ==
    \A i \in 1..Len(before.emails) : \A u \in Names :
        LET e0 == before.emails[i] IN
        (u # e0.from /\ u # e0.to /\ lastCmd \in AccessCmds(u, e0.id))
        => response = Denied /\ StoreUnchanged

\* a third party has tried to delete an existing message
C6_Witness ==
    \E i \in 1..Len(before.emails) : \E u \in Names :
        /\ u # before.emails[i].from /\ u # before.emails[i].to
        /\ lastCmd = Cmd(<< << "DELETE" >>, u, Str(before.emails[i].id) >>)
        /\ response = Denied
        /\ emails = before.emails

\* C7: a FORWARD that returned OK left every earlier message in place and
\* unchanged and appended exactly one message: from the forwarder, to
\* new_recipient, subject "FWD: " + the original subject, unread, with an id
\* other than the original's.
C7_ForwardAppendsCopy ==
    \A u \in Names, t \in Names, id \in 1..MaxId :
        (lastCmd = Cmd(<< << "FORWARD" >>, u, Str(id), t >>) /\ IsOK(response))
        => LET k == IndexOfId(before.emails, id) IN
           /\ k # 0
           /\ Len(emails) = Len(before.emails) + 1
           /\ SubSeq(emails, 1, Len(before.emails)) = before.emails
           /\ users = before.users
           /\ LET n == emails[Len(emails)] IN
              /\ n.from = u
              /\ n.to = t
              /\ n.subject = << "FWD: " >> \o before.emails[k].subject
              /\ n.read = FALSE
              /\ n.id # id

\* a recipient has forwarded a message somebody else sent
C7_Witness ==
    \E u \in Names, t \in Names, id \in 1..MaxId :
        /\ lastCmd = Cmd(<< << "FORWARD" >>, u, Str(id), t >>)
        /\ IsOK(response)
        /\ IndexOfId(before.emails, id) # 0
        /\ before.emails[IndexOfId(before.emails, id)].from # u
        /\ Len(emails) = Len(before.emails) + 1

\* C8: a FORWARD of an existing message by its sender or recipient to a
\* new_recipient that is not registered returns ERROR|Recipient not found and
\* leaves messages, id counter and the rest of the store unchanged.
C8_ForwardUnknownRecipient ==
    \A u \in Names, t \in Names, id \in 1..MaxId :
        LET k == IndexOfId(before.emails, id) IN
        ( /\ lastCmd = Cmd(<< << "FORWARD" >>, u, Str(id), t >>)
          /\ k # 0
          /\ (before.emails[k].from = u \/ before.emails[k].to = u)
          /\ t \notin DOMAIN before.users )
        => response = NoRecipient /\ StoreUnchanged

\* the recipient of a message has tried to forward it to an unregistered name
C8_Witness ==
    \E u \in Names, t \in Names, id \in 1..MaxId :
        /\ lastCmd = Cmd(<< << "FORWARD" >>, u, Str(id), t >>)
        /\ IndexOfId(before.emails, id) # 0
        /\ before.emails[IndexOfId(before.emails, id)].to = u
        /\ t \notin DOMAIN before.users
        /\ response = NoRecipient
        /\ email_id_counter = before.email_id_counter

\* C9: SEND|from|to|subject|body returns OK exactly when `to` is registered.
\* On OK one unread message with the given four fields is appended, and it is
\* the last entry of the INBOX listing of `to` and of the SENT listing of
\* `from`. Otherwise the response is ERROR|Recipient not found and the store
\* is unchanged.
C9_SendDelivers ==
    \A t \in Names, sj \in Subjects, b \in Bodies :
        lastCmd = Cmd(<< << "SEND" >>, A, t, sj, b >>)
        => /\ IsOK(response) <=> t \in DOMAIN before.users
           /\ IsOK(response) =>
                /\ Len(emails) = Len(before.emails) + 1
                /\ SubSeq(emails, 1, Len(before.emails)) = before.emails
                /\ LET n == emails[Len(emails)] IN
                   /\ n.from = A /\ n.to = t /\ n.subject = sj /\ n.body = b
                   /\ n.read = FALSE
                   /\ EndsWith(handle_inbox(Cmd(<< << "INBOX" >>, t >>)).resp,
                               Str(n.id) \o << "~" >> \o A \o << "~" >> \o sj \o << "~" >>
                                 \o n.timestamp \o << "~", "UNREAD" >>)
                   /\ EndsWith(handle_sent(Cmd(<< << "SENT" >>, A >>)).resp,
                               Str(n.id) \o << "~" >> \o t \o << "~" >> \o sj \o << "~" >>
                                 \o n.timestamp)
           /\ ~IsOK(response) => response = NoRecipient /\ StoreUnchanged

\* a SEND was delivered into an inbox that already held a message
C9_Witness ==
    \E t \in Names, sj \in Subjects, b \in Bodies :
        /\ lastCmd = Cmd(<< << "SEND" >>, A, t, sj, b >>)
        /\ IsOK(response)
        /\ Len(InboxOf(t)) >= 2
        /\ emails[Len(emails)].body = b

\* ------------------------------------------------- claims about the loop
\* the verbs process_command dispatches on (lines 392-411)
KnownVerbs ==
    { << v >> : v \in { "REGISTER", "LOGIN", "SEND", "INBOX", "SENT", "READ",
                        "DELETE", "FORWARD", "EXPORT", "STATUS" } }

\* this step, the loop takes the frame that waits on socket s
Reads(s) ==
    /\ running
    /\ s \in inputs
    /\ chan[s].rcvbuf # << >>
    /\ chan'[s].rcvbuf # chan[s].rcvbuf

\* this step, send(sock, response) hands resp to socket s, whose peer is there
Receives(s, resp) ==
    /\ event' = [kind |-> "answered", sock |-> s]
    /\ response' = resp
    /\ chan[s].peer = "up"

\* this step leaves users, messages, counter and file as they are
StoreKept ==
    /\ users' = users
    /\ emails' = emails
    /\ email_id_counter' = email_id_counter
    /\ disk' = disk

\* C18: a client that sends the empty command string receives ERROR|Empty
\* command, a client that sends a command with an unknown verb receives
\* ERROR|Unknown command '<verb>', and the store is unchanged in both cases.
C18_EmptyAndUnknownVerb ==
    [][ \A s \in Sockets :
          LET p == Head(chan[s].rcvbuf) IN
          (Reads(s) /\ chan[s].peer = "up" /\ p.str)
          => /\ (p.val = << >>)
                => Receives(s, ERR(<< "Empty command" >>)) /\ StoreKept
             /\ (p.val # << >> /\ Verb(p.val) \notin KnownVerbs)
                => /\ Receives(s, ERR(<< "Unknown command '" >> \o Verb(p.val) \o << "'" >>))
                   /\ StoreKept ]_vars

\* C19: whatever malformed payload a connected client sends in a frame, the
\* server answers it with an ERROR response, keeps the connection open and
\* tracked, keeps running and leaves the store unchanged.
C19_MalformedCommandAnswered ==
    [][ \A s \in Sockets :
          (Reads(s) /\ chan[s].peer = "up" /\ Head(chan[s].rcvbuf) \in MalformedPayloads)
          => /\ event' = [kind |-> "answered", sock |-> s]
             /\ Len(response') > 0 /\ response'[1] = "ERROR"
             /\ s \in inputs' /\ s \in clientmap' /\ chan'[s].st = "open"
             /\ running'
             /\ StoreKept ]_vars

\* C20: a step in which a socket.error is caught on socket s removes s, and
\* nothing else, from inputs and clientmap, leaves the loop running and leaves
\* every other connection as it was (tracked if it was tracked, open if it was
\* open, its unread command still waiting to be answered).
C20_SocketErrorDropsOnlyThatSocket ==
    [][ \A s \in Sockets :
          (s \in erred' /\ s \notin erred)
          => /\ inputs' = inputs \ { s }
             /\ clientmap' = clientmap \ { s }
             /\ running'
             /\ \A t \in Sockets \ { s } : chan'[t] = chan[t] ]_vars

\* a socket.error was caught on one socket, and after it the loop has received
\* and answered a command of another connection, which is still tracked
C20_Witness ==
    /\ erred # {}
    /\ running
    /\ event.kind = "answered"
    /\ event.sock \notin erred
    /\ event.sock \in inputs
    /\ event.sock \in clientmap
    /\ chan[event.sock].st = "open"

\* C21: on a connection whose peer is there, every non-empty command the loop
\* reads is the oldest unread one and is answered in that step with the
\* response to it, after which the connection is still tracked and open; and a
\* connection is deregistered and closed only in a step whose read returned
\* nothing or failed.
C21_OneResponsePerCommand ==
    [][ \A s \in Sockets :
          /\ (Reads(s) /\ chan[s].peer = "up" /\ Truthy(Head(chan[s].rcvbuf)))
             => /\ event' = [kind |-> "answered", sock |-> s]
                /\ lastCmd' = Head(chan[s].rcvbuf).val
                /\ chan'[s].rcvbuf = Tail(chan[s].rcvbuf)
                /\ s \in inputs' /\ s \in clientmap' /\ chan'[s].st = "open"
          /\ (s \in inputs /\ s \notin inputs' /\ chan'[s].st = "closed")
             => /\ event'.sock = s
                /\ event'.kind \in { "disconnected", "recverror" } ]_vars

\* C28: in every state of the loop, the Active Clients number in the response
\* to the global STATUS command is the number of client sockets the loop
\* tracks, and the sockets in inputs are the keys of clientmap.
C28_ActiveClientsIsTracked ==
    /\ handle_status(<< "STATUS" >>).resp
       = << "OK", PIPE, "Users: " >> \o Str(Cardinality(DOMAIN users))
            \o << PIPE, "Emails: " >> \o Str(Len(emails))
            \o << PIPE, "Active Clients: " >> \o Str(Cardinality(inputs))
    /\ inputs = clientmap

\* C27: while a command read from socket s is not yet answered, a step of the
\* loop neither reads from another connection, nor accepts or drops one, nor
\* turns to another socket, and the store changes in no step but the one that
\* processes that command; the store changes in no other step at all, and the
\* step that processes sets the store and the snapshot to what process_command
\* gives for that command on the store as the read found it.
C27_CommandsRunToCompletion ==
    [][ /\ \A s \in Sockets :
             (event.sock = s /\ event.kind \in { "received", "processed" } /\ running')
             => /\ \A t \in Sockets \ { s } :
                     /\ Len(chan'[t].rcvbuf) >= Len(chan[t].rcvbuf)
                     /\ (t \in inputs) = (t \in inputs')
                /\ event'.sock = s
                /\ event.kind = "received"
                   => (event' = event /\ StoreKept /\ lastCmd' = lastCmd)
                      \/ event'.kind = "processed"
                /\ event.kind = "processed"
                   => StoreKept /\ event'.kind \in { "processed", "answered", "senderror" }
        /\ ~StoreKept
           => /\ event.kind = "received"
              /\ event' = [kind |-> "processed", sock |-> event.sock]
              /\ \E now \in Timestamps :
                    \E o \in { process_command(lastCmd, now) } :
                       /\ users' = o.users
                       /\ emails' = o.emails
                       /\ email_id_counter' = o.email_id_counter
                       /\ disk' = o.disk
                       /\ response' = o.resp ]_vars

\* the command of one connection has changed the store and is not yet answered
\* while a command of another tracked connection waits unread
C27_Witness ==
    /\ event.kind = "processed"
    /\ emails # << >>
    /\ before.emails = << >>
    /\ \E t \in inputs \ { event.sock } : chan[t].rcvbuf # << >>

\* C29: once the shutdown signal has been handled, the listening socket is
\* closed and so is every client socket the loop was tracking.
C29_ShutdownClosesTracked ==
    event.kind = "sighandler"
    => /\ server = "closed"
       /\ \A s \in inputs : chan[s].st = "closed"

\* C30: the payloads receive() has returned are, in order, the payloads given
\* to send(), each once; and when every byte written has been read, every
\* send() has been returned by a receive().
C30_EachSendReceivedOnce ==
    /\ Len(stream.got) <= Len(stream.sent)
    /\ \A i \in 1..Len(stream.got) : stream.got[i] = stream.sent[i]
    /\ (stream.out = << >> /\ stream.in = << >>) => stream.got = stream.sent

\* ----------------------------------------------- claims about the client
\* what the store holds for the messages addressed to user u, the id in digits
StoredInbox(em, u) ==
    LET inbox == SelectSeq(em, LAMBDA e : e.to = u) IN
    [i \in 1..Len(inbox) |->
        [id |-> Str(inbox[i].id), from |-> inbox[i].from, subject |-> inbox[i].subject,
         timestamp |-> inbox[i].timestamp, read |-> inbox[i].read]]

Delimiters == { PIPE, "~", ";" }

\* the strings handle_inbox joins with ";" for user u, each split on "~"
ListedEntries(u) ==
    LET inbox == InboxOf(u) IN
    [i \in 1..Len(inbox) |-> Split(RStrip(InboxEntry(inbox[i]), ";"), "~", -1)]

\* the program's fields of a cache record
CacheRecord(c) == [inbox |-> c.inbox, sent |-> c.sent, last_sync |-> c.last_sync]

\* C11: in every reachable store and for every username u, sync_inbox applied
\* to the server's response to INBOX|u returns, in order, one entry per message
\* addressed to u, with the id, sender, subject, timestamp and read flag the
\* store holds.
C11_InboxRoundTrip ==
    \A u \in ClientUsers :
        sync_inbox(cache, u, handle_inbox(Cmd(<< << "INBOX" >>, u >>)).resp,
                   ClientTimes[clock]).ret
        = StoredInbox(emails, u)

\* C12: the subject of every SEND the client writes (compose_email,
\* resume_draft, reply_email) contains none of the delimiters "|", "~", ";",
\* and so every entry of an INBOX listing splits on "~" into exactly 5 fields.
C12_SubjectsSanitized ==
    /\ \A i \in 1..Len(subject_sent) : subject_sent[i] \notin Delimiters
    /\ \A u \in ClientUsers :
          \A i \in 1..Len(ListedEntries(u)) : Len(ListedEntries(u)[i]) = 5

\* C13: when read_email has parsed an OK response to READ, the body, sender,
\* recipient, subject and timestamp it shows are those of the stored message
\* with that id.
C13_ReadRoundTrip ==
    pc = "read_options"
    => \E i \in 1..Len(emails) :
          /\ Str(emails[i].id) = shown_email.id
          /\ emails[i].body = shown_email.body
          /\ emails[i].from = shown_email.from
          /\ emails[i].to = shown_email.to
          /\ emails[i].subject = shown_email.subject
          /\ emails[i].timestamp = shown_email.timestamp

\* C14: a sync_inbox call that follows a sync_inbox call for the same user
\* (one that the server answered with OK or EMPTY), with no change of the store
\* between them or during it, leaves the cache record (inbox, sent, last_sync)
\* as the first call left it.
C14_SyncTwiceSameCache ==
    [][ (ViewInbox /\ in_row /\ users' = users /\ emails' = emails)
        => CacheRecord(cache') = CacheRecord(cache) ]_vars

\* C15: when the response sync_inbox (sync_sent) obtains starts neither with OK
\* nor with EMPTY, the cached inbox (sent) list is left as it was and is the
\* value returned.
C15_FailedSyncKeepsCache ==
    [][ /\ ((ViewInbox \/ LoginSyncInbox)
             /\ ~StartsWith(ret', "OK") /\ ~StartsWith(ret', "EMPTY"))
           => /\ cache' = cache
              /\ sync_inbox(cache, client_username, ret', ClientTimes[clock]).ret
                 = cache.inbox
        /\ (LoginSyncSent /\ ~StartsWith(ret', "OK") /\ ~StartsWith(ret', "EMPTY"))
           => /\ cache' = cache
              /\ sync_sent(cache, client_username, ret').ret = cache.sent ]_vars

\* a sync_inbox of login() has failed on a timeout or a transport error and the
\* entries loaded from the user's file are still in the cache
C15_Witness ==
    /\ pc = "login_sync_sent"
    /\ StartsWith(ret, "ERROR")
    /\ cache.inbox # << >>
    /\ cache.inbox_for = client_username

\* C16: after a sync_inbox that took the OK or the EMPTY branch, the cached
\* inbox is the server's listing for the logged-in user: no earlier entry
\* survives and every read flag is the server's.
C16_SyncReplacesWithServerInbox ==
    [][ ((ViewInbox \/ LoginSyncInbox)
          /\ (StartsWith(ret', "OK") \/ StartsWith(ret', "EMPTY")))
        => cache'.inbox = StoredInbox(emails', client_username) ]_vars

\* C17: between the client's operations, the lists in the cache of a logged-in
\* user, and the lists saved in a user's file, hold only entries loaded or
\* synced for that user.
C17_CacheBelongsToUser ==
    /\ (pc = "menu" /\ logged_in)
       => /\ cache.inbox # << >> => cache.inbox_for = client_username
          /\ cache.sent # << >> => cache.sent_for = client_username
    /\ \A u \in ClientUsers :
          files[u].exists
          => /\ files[u].cache.inbox # << >> => files[u].cache.inbox_for = u
             /\ files[u].cache.sent # << >> => files[u].cache.sent_for = u

\* this step, the client calls send_command
Calls == CacheLogin \/ LoginSyncInbox \/ LoginSyncSent \/ ViewInbox \/ ReadEmail

\* this step, send_command writes a command on the connection
Writes == Calls /\ ret' # ERR(<< "Not connected to server" >>)

\* a command written on the open connection has not been handled yet, or its
\* response has not been read by the client
Unanswered ==
    \/ arrived # << >>
    \/ \E i \in 1..Len(inflight) : inflight[i].live

\* C22: the client writes a command on its connection only when every command
\* it wrote on that connection before has been answered and the response read,
\* also after calls that timed out.
C22_OneCommandInFlight == [][ Writes => ~Unanswered ]_vars

\* the ERROR strings of select()'s exceptional list and of a transport exception
TransportFailures == { ERR(e) : e \in TransportErrors }

\* C23: a send_command call that returns ERROR|Server timeout leaves the
\* connection marked connected, with the command waiting on it; a call in which
\* the socket is exceptional or a transport exception is raised returns an
\* ERROR string and marks the connection dead; and no other outcome of a call
\* turns the connected flag from true to false.
C23_TimeoutKeepsConnection ==
    [][ Calls
        => /\ (ret' = ERR(<< "Server timeout" >>))
              => /\ connected'
                 /\ inflight' = Append(inflight, inflight'[Len(inflight')])
                 /\ inflight'[Len(inflight')].live
                 /\ arrived' = arrived
           /\ (ret' \in TransportFailures) => ~connected'
           /\ (connected /\ ~connected') => ret' \in TransportFailures ]_vars

\* a call has timed out: the client is still marked connected and the command
\* is still on its way on the open connection
C23_Witness ==
    /\ ret = ERR(<< "Server timeout" >>)
    /\ connected
    /\ inflight # << >>
    /\ inflight[Len(inflight)].live

\* C24: a send_command call that fails on a transport error (the connection is
\* reset, the peer has closed it, the frame header is short or undecodable)
\* leaves the connection marked dead, so that the next call connects anew; and
\* a call writes its command at most once.
C24_TransportErrorMarksDead ==
    [][ Calls
        => /\ (ret' \in TransportFailures \/ ret' = EndOfStream) => ~connected'
           /\ Len(inflight') <= Len(inflight) + 1 ]_vars

\* C26: whatever the server does, the value a send_command call returns has a
\* "|" in it and its first field is OK, ERROR or EMPTY.
C26_ResponseHasStatusToken ==
    [][ Calls
        => /\ ~Unprintable(ret')
           /\ Split(ret', PIPE, -1)[1] \in { << "OK" >>, << "ERROR" >>, << "EMPTY" >> } ]_vars

\* C25: a resume_draft step changes the user's draft list only when the server
\* has stored the message of that draft in the step, and then the list loses
\* the entry at the given position and no other; when the SEND is not accepted
\* or the user cancels, the list is as it was.
C25_DraftRemovedOnlyWhenSent ==
    [][ (ResumeDraft /\ drafts' # drafts)
        => \E index \in 0..(MaxDrafts - 1) :
              LET mine == drafts[client_username] IN
              /\ index < Len(mine)
              /\ drafts' = [drafts EXCEPT ![client_username] =
                              SubSeq(mine, 1, index) \o SubSeq(mine, index + 2, Len(mine))]
              /\ Len(emails') = Len(emails) + 1
              /\ emails'[Len(emails')].from = client_username
              /\ emails'[Len(emails')].to = mine[index + 1].to
              /\ emails'[Len(emails')].subject = subject_sent' ]_vars

\* ------------------------------------------- further claims about the store
\* C32: in every step a registered user stays registered with the password it
\* has; the users change only in a REGISTER that answers OK and adds the one
\* name it gives, with the password it gives; and a REGISTER of a name that is
\* registered answers ERROR|Username already exists.
C32_UsersOnlyGrow ==
    [][ /\ \A u \in DOMAIN users : u \in DOMAIN users' /\ users'[u] = users[u]
        /\ users' # users
           => /\ lastCmd' \in RegisterCmds
              /\ IsOK(response')
              /\ LET parts == Split(lastCmd', PIPE, 2) IN
                     /\ Len(parts) = 3
                     /\ parts[2] \notin DOMAIN users
                     /\ users' = DictSet(users, parts[2], parts[3])
        /\ \A data \in RegisterCmds :
              (lastCmd' = data /\ Len(Split(data, PIPE, 2)) = 3
                 /\ Split(data, PIPE, 2)[2] \in DOMAIN users)
              => response' = ERR(<< "Username already exists" >>) /\ users' = users ]_vars

\* user b is registered with password p, and a REGISTER of b with password q was
\* answered with the error
C32_Witness ==
    /\ lastCmd = Cmd(<< << "REGISTER" >>, B, << "q" >> >>)
    /\ response = ERR(<< "Username already exists" >>)
    /\ B \in DOMAIN users
    /\ users[B] = << "p" >>

\* C34: in every state the recipient of every message in self.emails is a key
\* of self.users, and the same holds of the messages and users of the snapshot
\* a restart loads.
C34_RecipientsRegistered ==
    /\ \A i \in 1..Len(emails) : emails[i].to \in DOMAIN users
    /\ disk.exists => \A i \in 1..Len(disk.emails) : disk.emails[i].to \in DOMAIN disk.users

\* the store holds a message created by SEND and one created by FORWARD, and a
\* SEND to a name nobody registered has just been refused
C34_Witness ==
    /\ \E i \in 1..Len(emails) : emails[i].subject[1] = "FWD: "
    /\ \E i \in 1..Len(emails) : emails[i].subject[1] # "FWD: "
    /\ \E t \in Names \ DOMAIN users, sj \in Subjects, b \in Bodies :
          lastCmd = Cmd(<< << "SEND" >>, A, t, sj, b >>)
    /\ response = NoRecipient

\* C31: the response to a command the loop answers is what process_command
\* gives for the command string on the store as it is, whichever socket sent it
\* and whatever that socket sent before; a command that names a user is
\* answered so on a socket that has no LOGIN of that user answered OK.
C31_ResponseIgnoresConnection ==
    [][ \A s \in Sockets :
          (Reads(s) /\ event' = [kind |-> "answered", sock |-> s]
             /\ Head(chan[s].rcvbuf).val # << "STATUS" >>)
          => \E now \in Timestamps :
                response' = process_command(Head(chan[s].rcvbuf).val, now).resp ]_vars

\* the inbox of user a was listed on a socket that never logged in as a, while
\* the other socket has
C31_Witness ==
    /\ event.kind = "answered"
    /\ lastCmd = Cmd(<< << "INBOX" >>, A >>)
    /\ IsOK(response)
    /\ << event.sock, A >> \notin logins
    /\ \E t \in Sockets \ { event.sock } : << t, A >> \in logins

\* ------------------------------------------ further claims about the client
\* send_command returned what it read from the connection: not a value made up
\* by the client, and not the empty value of a stream that ended
FromServer(r) ==
    /\ r # ERR(<< "Not connected to server" >>)
    /\ r # ERR(<< "Server timeout" >>)
    /\ r \notin TransportFailures
    /\ r # EndOfStream

\* C33: when a sync_inbox or sync_sent call gets a response from the server,
\* the response is the server's answer to the INBOX, respectively SENT, command
\* that call wrote, after timeouts and late replies too.
C33_ResponseMatchesCommand ==
    [][ /\ ((LoginSyncInbox \/ ViewInbox) /\ FromServer(ret'))
           => ret' = (handle_inbox(Cmd(<< << "INBOX" >>, client_username >>)).resp)'
        /\ (LoginSyncSent /\ FromServer(ret'))
           => ret' = (handle_sent(Cmd(<< << "SENT" >>, client_username >>)).resp)' ]_vars

\* C35: a receive() call whose recv() found the stream ended before the whole
\* body had arrived has returned; it is not in its loop, about to call recv()
\* on the ended stream again.
C35_ReadReturnsAtEndOfStream ==
    stream.ended => stream.at # "body"

====
